---- MODULE Spec2Model ----
(***************************************************************************)
(* Model of the Maven skill: the event handler's step pipeline             *)
(* (lib/events.ts) and the argument tokenizer (lib/args.ts).               *)
(*                                                                         *)
(* Strings are sequences of one-character strings, so that charAt,         *)
(* includes, trim and concatenation are computed and not assumed.          *)
(***************************************************************************)
EXTENDS Integers, Sequences, FiniteSets, TLC

VARIABLES
    cfg,        \* ctx.configuration.parameters: command, settings, mvn, version
    files,      \* the project's file system: pom.xml, mvnw, .m2/settings.xml
    pc,         \* name of the step the runner is about to consider, or "done"
    params,     \* the shared MvnParameters: project, check, body
    result,     \* runSteps' accumulated result
    terminal,   \* the value the handler returned, NoOutcome while running
    trace,      \* history: the steps that ran, with the outcome each returned
    checkRun,   \* history: calls made to the check-run API
    spawned,    \* history: processes spawned
    written,    \* history: files written
    env,        \* process.env
    events,     \* history: the externally visible actions, in order
    awaiting,   \* what the running step awaits, and what it returns after it
    argString,  \* tokenizeArgString: the argument string
    tokens,     \* tokenizeArgString: the returned array
    tokDone,    \* tokenizeArgString: whether it has returned
    argIsArray, \* tokenizeArgString: whether the argument is an array
    argArray,   \* tokenizeArgString: the argument array
    retokens,   \* what tokenizeArgString returns for the array `tokens`
    retokDone   \* whether that second call has returned

vars == <<cfg, files, pc, params, result, terminal, trace, checkRun, spawned,
          written, env, events, awaiting, argString, tokens, tokDone, argIsArray, argArray,
          retokens, retokDone>>

pipelineVars == <<cfg, files, pc, params, result, terminal, trace, checkRun,
                  spawned, written, env, events, awaiting>>

tokVars == <<argString, tokens, tokDone, argIsArray, argArray, retokens,
            retokDone>>

----------------------------------------------------------------------------
(* Bounds *)

MaxLen == 4        \* longest tokenizer input explored exhaustively
MaxLogLines == 2   \* longest captured build log, in lines
MaxStatus == 1     \* exit statuses range over 0..MaxStatus
MaxElems == 2      \* longest argument array explored exhaustively

----------------------------------------------------------------------------
(* Characters and strings *)

Quotes == {"'", "\""}

\* A character outside the ASCII range, or without an escape, is written by
\* its code point.
NBSP == "U+00A0"

\* the white space and line terminators String.prototype.trim strips
WhiteSpace ==
    {" ", "\t", "\n", "\r", "\f", "U+000B", NBSP, "U+FEFF", "U+1680",
     "U+2000", "U+2001", "U+2002", "U+2003", "U+2004", "U+2005", "U+2006",
     "U+2007", "U+2008", "U+2009", "U+200A", "U+2028", "U+2029", "U+202F",
     "U+205F", "U+3000"}

\* the characters of the argument strings explored
Alphabet == {"a", "b", " ", "\t", "\n", "\r", NBSP, "'", "\""}

RECURSIVE StringsOfLen(_)
StringsOfLen(n) ==
    IF n = 0 THEN {<<>>}
    ELSE {Append(s, ch) : s \in StringsOfLen(n - 1), ch \in Alphabet}

Strings == UNION {StringsOfLen(n) : n \in 0..MaxLen}

Last(seq) == seq[Len(seq)]

\* String.prototype.includes
includes(a, sub) ==
    \E k \in 0..(Len(a) - Len(sub)) : SubSeq(a, k + 1, k + Len(sub)) = sub

\* String.prototype.trim
trim(s) ==
    LET keep == {k \in 1..Len(s) : s[k] \notin WhiteSpace}
    IN  IF keep = {} THEN <<>>
        ELSE LET lo == CHOOSE k \in keep : \A j \in keep : k <= j
                 hi == CHOOSE k \in keep : \A j \in keep : k >= j
             IN  SubSeq(s, lo, hi)

----------------------------------------------------------------------------
(* lib/args.ts *)

Null == "null"                  \* the value null of prevC, c and opening
Undefined == <<"undefined">>    \* a hole of the sparse array args

\* args[i] of a JavaScript array (i is 0-based)
ArrayGet(args, i) == IF i + 1 <= Len(args) THEN args[i + 1] ELSE Undefined

\* args[i] = v of a JavaScript array: the array grows, leaving holes
ArraySet(args, i, v) ==
    [k \in 1..(IF i + 1 > Len(args) THEN i + 1 ELSE Len(args)) |->
        IF k = i + 1 THEN v
        ELSE IF k <= Len(args) THEN args[k] ELSE Undefined]

\* a split at every space outside quotes, whatever came before it
nextIndex_Always(i, prevC) == i + 1

\* if (!(prevC === " ")) { i++; }
nextIndex(i, prevC) == IF ~(prevC = " ") THEN i + 1 ELSE i

\* an iteration in which a quote of either kind closes the open quote
tokenizeChar_AnyQuoteCloses(st, ch) ==
    LET prevC == st.c
        c == ch
    IN  IF c = " " /\ st.opening = Null
        THEN [st EXCEPT !.prevC = prevC, !.c = c,
                        !.i = nextIndex(st.i, prevC)]
        ELSE LET opening ==
                     IF c \in Quotes /\ st.opening # Null THEN Null
                     ELSE IF (c = "'" \/ c = "\"") /\ st.opening = Null THEN c
                     ELSE st.opening
                 cur == ArrayGet(st.args, st.i)
                 args1 == IF cur = Undefined \/ cur = <<>>
                          THEN ArraySet(st.args, st.i, <<>>)
                          ELSE st.args
                 args2 == ArraySet(args1, st.i, Append(ArrayGet(args1, st.i), c))
             IN  [st EXCEPT !.prevC = prevC, !.c = c, !.opening = opening,
                            !.args = args2]

\* one iteration of the for loop over the characters
tokenizeChar(st, ch) ==
    LET prevC == st.c
        c == ch
    IN  IF c = " " /\ st.opening = Null
        THEN [st EXCEPT !.prevC = prevC, !.c = c,
                        !.i = nextIndex(st.i, prevC)]
        ELSE LET opening ==
                     IF c = st.opening THEN Null
                     ELSE IF (c = "'" \/ c = "\"") /\ st.opening = Null THEN c
                     ELSE st.opening
                 cur == ArrayGet(st.args, st.i)
                 args1 == IF cur = Undefined \/ cur = <<>>
                          THEN ArraySet(st.args, st.i, <<>>)
                          ELSE st.args
                 args2 == ArraySet(args1, st.i, Append(ArrayGet(args1, st.i), c))
             IN  [st EXCEPT !.prevC = prevC, !.c = c, !.opening = opening,
                            !.args = args2]

RECURSIVE tokenizeLoop(_, _, _)
tokenizeLoop(st, s, ii) ==
    IF ii > Len(s) THEN st.args
    ELSE tokenizeLoop(tokenizeChar(st, s[ii]), s, ii + 1)

\* a tokenizer that does not trim its argument
tokenizeArgString_NoTrim(s) ==
    tokenizeLoop([i |-> 0, prevC |-> Null, c |-> Null, opening |-> Null,
                  args |-> <<>>], s, 1)

\* tokenizeArgString on a string
tokenizeArgString(s) ==
    tokenizeLoop([i |-> 0, prevC |-> Null, c |-> Null, opening |-> Null,
                  args |-> <<>>], trim(s), 1)

\* Elements of an argument array: strings, numbers and booleans
StringElem(str) == [type |-> "string", str |-> str, num |-> 0, bool |-> FALSE]
NumberElem(n) == [type |-> "number", str |-> <<>>, num |-> n, bool |-> FALSE]
BooleanElem(b) == [type |-> "boolean", str |-> <<>>, num |-> 0, bool |-> b]

DecimalDigits == <<"0", "1", "2", "3", "4", "5", "6", "7", "8", "9">>

\* the decimal form of a natural number
RECURSIVE NumberToString(_)
NumberToString(n) ==
    IF n < 10 THEN <<DecimalDigits[n + 1]>>
    ELSE Append(NumberToString(n \div 10), DecimalDigits[(n % 10) + 1])

\* e + ""
Stringify(e) ==
    IF e.type = "number" THEN NumberToString(e.num)
    ELSE IF e.type = "boolean"
    THEN (IF e.bool THEN <<"t", "r", "u", "e">> ELSE <<"f", "a", "l", "s", "e">>)
    ELSE e.str

\* an array branch that joins the elements and tokenizes the result
tokenizeArray_Retokenizes(arr) ==
    LET strs == [k \in 1..Len(arr) |-> Stringify(arr[k])]
        glue[k \in 0..Len(arr)] ==
            IF k = 0 THEN <<>>
            ELSE IF k = 1 THEN strs[1]
            ELSE glue[k - 1] \o <<" ">> \o strs[k]
    IN  tokenizeArgString(glue[Len(arr)])

\* argString.map(e => (typeof e !== "string" ? e + "" : e))
tokenizeArray(arr) ==
    [k \in 1..Len(arr) |->
        IF arr[k].type # "string" THEN Stringify(arr[k]) ELSE arr[k].str]

\* tokenizeArgString on a string or an array
tokenizeArg(x) ==
    IF x.isArray THEN tokenizeArray(x.arr) ELSE tokenizeArgString(x.str)

\* the array `tokens` as an argument
AsArray(toks) == [k \in 1..Len(toks) |-> StringElem(toks[k])]

----------------------------------------------------------------------------
(* String literals of lib/events.ts *)

MVN == <<"m", "v", "n">>
MVNW == <<".", "/", "m", "v", "n", "w">>
BASH == <<"b", "a", "s", "h">>
DashC == <<"-", "c">>
CleanInstall == <<"c", "l", "e", "a", "n", " ", "i", "n", "s", "t", "a", "l", "l">>
RepoLocalFlag == <<"-", "D", "m", "a", "v", "e", "n", ".", "r", "e", "p", "o", ".", "l", "o", "c", "a", "l">>
RepoLocalDefault == <<"-", "D", "m", "a", "v", "e", "n", ".", "r", "e", "p", "o", ".", "l", "o", "c", "a", "l", "=", ".", "m", "2">>
SettingsEq == <<"-", "-", "s", "e", "t", "t", "i", "n", "g", "s", "=">>
SettingsLong == <<"-", "-", "s", "e", "t", "t", "i", "n", "g", "s">>
ShortS == <<"-", "s">>
ShortSEq == <<"-", "s", "=">>
SdkInstall == <<"s", "o", "u", "r", "c", "e", " ", "$", "S", "D", "K", "M", "A", "N", "_", "D", "I", "R", "/", "b", "i", "n", "/", "s", "d", "k", "m", "a", "n", "-", "i", "n", "i", "t", ".", "s", "h", " ", "&", "&", " ", "s", "d", "k", " ", "i", "n", "s", "t", "a", "l", "l", " ", "j", "a", "v", "a", " ">>
DefaultHome == <<"/", "a", "t", "m", "/", "h", "o", "m", "e">>
Separator == "\n\n---\n\n"

\* process.cwd(), the directory the project is loaded into
ProjectDir == <<"/", "a", "t", "m", "/", "h", "o", "m", "e">>

\* project.path(".m2", "settings.xml")
SettingsPath == ProjectDir \o <<"/", ".", "m", "2", "/", "s", "e", "t", "t", "i", "n", "g", "s", ".", "x", "m", "l">>

----------------------------------------------------------------------------
(* Inputs: configurations, file systems, build logs *)

BareMvnw == <<"m", "v", "n", "w">>
UserRepoLocal == <<"-", "D", "m", "a", "v", "e", "n", ".", "r", "e", "p", "o", ".", "l", "o", "c", "a", "l", "=", "/", "c", "u", "s", "t", "o", "m">>
Goal == <<"t", "e", "s", "t">>
UserFile == <<"x", ".", "x", "m", "l">>
NoFile == <<"ENOENT">>
RepoSettings == <<"<", "r", "/", ">">>
UserSettings == <<"<", "u", "/", ">">>
UserCommand == <<"l", "s">>

\* the values of the `version` option
JdkVersions ==
    {<<"1", "5", ".", "0", ".", "1", ".", "h", "s", "-", "a", "d", "p", "t">>,
     <<"1", "4", ".", "0", ".", "2", ".", "h", "s", "-", "a", "d", "p", "t">>,
     <<"1", "3", ".", "0", ".", "2", ".", "h", "s", "-", "a", "d", "p", "t">>,
     <<"1", "2", ".", "0", ".", "2", ".", "h", "s", "-", "a", "d", "p", "t">>,
     <<"1", "1", ".", "0", ".", "9", ".", "h", "s", "-", "a", "d", "p", "t">>,
     <<"8", ".", "0", ".", "2", "7", "5", ".", "h", "s", "-", "a", "d", "p", "t">>}

\* defaultValue of the `version` option
DefaultJdkVersion ==
    <<"1", "1", ".", "0", ".", "9", ".", "h", "s", "-", "a", "d", "p", "t">>

\* the versions explored: the default, and the option not set (it is not
\* required); the step uses the version as text only
VersionInputs == {DefaultJdkVersion, Undefined}

RECURSIVE JoinWords(_)
JoinWords(ws) ==
    IF ws = <<>> THEN <<>>
    ELSE IF Len(ws) = 1 THEN ws[1]
    ELSE ws[1] \o <<" ">> \o JoinWords(Tail(ws))

\* what the user may put in front of the goals: an executable name
ExecWords == {<<>>, <<MVN>>, <<MVNW>>, <<BareMvnw>>}

\* a flag the user may pass, in each of the forms Maven accepts
FlagWords == {<<>>, <<UserRepoLocal>>,
              <<ShortS, UserFile>>, <<ShortSEq \o UserFile>>,
              <<SettingsLong, UserFile>>, <<SettingsEq \o UserFile>>}

\* values of the `mvn` parameter; <<>> is the parameter left empty
MvnInputs ==
    {JoinWords(e \o f \o <<Goal>>) : e \in ExecWords, f \in FlagWords}
        \cup {<<>>, JoinWords(<<Goal, MVN>>)}

Configurations ==
    [command : {<<>>, UserCommand}, settings : {<<>>, UserSettings},
     mvn : MvnInputs, version : VersionInputs]

FileSystems == [pom : BOOLEAN, mvnw : BOOLEAN, settings : {NoFile, RepoSettings}]

\* process.env.ATOMIST_HOME, <<>> when it is not set
AltHome == <<"/", "w">>
Environments == [ATOMIST_HOME : {<<>>, AltHome}]

Absent == -1

\* lines a build may log: the level, and for a diagnostic the path, line and
\* column as they are written in the line; <<>> is a part the line lacks
Chatter == [level |-> "INFO", path |-> <<>>, line |-> <<>>, column |-> <<>>]
ErrorLine == [level |-> "ERROR", path |-> DefaultHome \o <<"/", "A">>, line |-> <<"1", "0">>, column |-> <<"3">>]
WarningLine == [level |-> "WARNING", path |-> <<"B">>, line |-> <<>>, column |-> <<>>]
NestedLine == [level |-> "ERROR", path |-> <<"/", "x">> \o DefaultHome \o <<"/", "A">>, line |-> <<"7">>, column |-> <<>>]
LogLines == {Chatter, ErrorLine, WarningLine, NestedLine}

ExitStatuses == 0..MaxStatus

----------------------------------------------------------------------------
(* Outcomes (status.success / status.failure of the skill library) *)

NoReason == [text |-> "", cmdString |-> <<>>, formatted |-> FALSE]
NoOutcome == [code |-> -1, reason |-> NoReason, visibility |-> "none", abort |-> FALSE]

success(reason) == [code |-> 0, reason |-> reason, visibility |-> "none", abort |-> FALSE]
failure(reason) == [code |-> 1, reason |-> reason, visibility |-> "none", abort |-> FALSE]
hidden(o) == [o EXCEPT !.visibility = "hidden"]
abort(o) == [o EXCEPT !.abort = TRUE]

\* statusReason({reason, repo, commit}) of lib/status.ts
statusReason(text, cmdString) ==
    [text |-> text, cmdString |-> cmdString, formatted |-> TRUE]

----------------------------------------------------------------------------
(* Report paragraphs (lib/status.ts) and the check-run body *)

Paragraph(kind) ==
    [kind |-> kind, cmdString |-> <<>>, trimmed |-> FALSE, status |-> 0,
     stderr |-> <<>>, version |-> <<>>]

\* spawnFailure(result)
spawnFailure(r) ==
    [Paragraph("spawnFailure") EXCEPT !.cmdString = r.cmdString,
                                      !.status = r.status, !.stderr = r.stderr]

\* `<prefix>\`${trimDirectory(result.cmdString)}\` successful`
Successful(kind, cmdString) ==
    [Paragraph(kind) EXCEPT !.cmdString = cmdString, !.trimmed = TRUE]

\* `Installed JDK version \`${cfg.version}\``
InstalledJdk(version) == [Paragraph("Installed JDK version") EXCEPT !.version = version]

\* a report pushed as its paragraphs one after the other, nothing between
join_NoSeparator(body) == body

\* params.body.join("\n\n---\n\n"): the paragraphs with the separator between
RECURSIVE join(_)
join(body) ==
    IF Len(body) <= 1 THEN body
    ELSE <<body[1], Paragraph(Separator)>> \o join(Tail(body))

\* the result of a spawned process
SpawnResult(command, args, status) ==
    [cmdString |-> <<command>> \o args, status |-> status, stderr |-> <<>>]

----------------------------------------------------------------------------
(* lib/annotation.ts and the annotation mapping of the mvn step *)

Severity(level) ==
    IF level = "ERROR" THEN "failure"
    ELSE IF level = "INFO" THEN "notice" ELSE "warning"

RECURSIVE extractAnnotations(_)
extractAnnotations(log) ==
    IF log = <<>> THEN <<>>
    ELSE LET l == log[1]
             rest == extractAnnotations(Tail(log))
         IN  IF l.path = <<>> THEN rest
             ELSE <<[severity |-> Severity(l.level), path |-> l.path,
                     line |-> l.line, column |-> l.column,
                     title |-> "javac", message |-> l.level]>> \o rest

\* String.prototype.replace(pattern, "") with a string pattern: the first
\* occurrence is removed, wherever it is
replaceFirst(s, pat) ==
    IF ~includes(s, pat) THEN s
    ELSE LET k == CHOOSE k \in 0..(Len(s) - Len(pat)) :
                    /\ SubSeq(s, k + 1, k + Len(pat)) = pat
                    /\ \A j \in 0..(k - 1) : SubSeq(s, j + 1, j + Len(pat)) # pat
         IN  SubSeq(s, 1, k) \o SubSeq(s, k + Len(pat) + 1, Len(s))

\* +r.line: the number a string of digits denotes
RECURSIVE ToNumber(_)
ToNumber(digits) ==
    IF digits = <<>> THEN 0
    ELSE 10 * ToNumber(SubSeq(digits, 1, Len(digits) - 1))
             + (CHOOSE d \in 0..9 : DecimalDigits[d + 1] = digits[Len(digits)])

\* process.env.ATOMIST_HOME || "/atm/home"
homeDir(e) == IF e.ATOMIST_HOME # <<>> THEN e.ATOMIST_HOME ELSE DefaultHome

toAnnotation(r, home) ==
    [annotationLevel |-> r.severity,
     path |-> replaceFirst(r.path, home \o <<"/">>),
     startLine |-> IF r.line # <<>> THEN ToNumber(r.line) ELSE Absent,
     endLine |-> IF r.line # <<>> THEN ToNumber(r.line) ELSE Absent,
     startOffset |-> IF r.column # <<>> THEN ToNumber(r.column) ELSE Absent,
     title |-> r.title, message |-> r.message]

mapAnnotations(as, home) == [k \in 1..Len(as) |-> toAnnotation(as[k], home)]

----------------------------------------------------------------------------
(* The step runner (runSteps of the skill library) and the handler *)

\* a step list with the build ahead of the toolchain install
Steps_BuildBeforeInstall ==
    <<"load", "validate", "command", "prepare", "mvn", "setup jdk">>

\* steps: [LoadProjectStep, ValidateStep, CommandStep, PrepareStep,
\*         SetupNodeStep, MvnGoalsStep]
Steps == <<"load", "validate", "command", "prepare", "setup jdk", "mvn">>

StepIndex(name) == CHOOSE k \in 1..Len(Steps) : Steps[k] = name

\* What the runner does with the outcome sr of step k: a failure or an abort
\* is returned at once, any other outcome is merged into the result and the
\* next step is considered; after the last step the result is returned.
runSteps(steps, k, sr, prev) ==
    LET merged == [code |-> sr.code,
                   reason |-> IF sr.reason # NoReason THEN sr.reason ELSE prev.reason,
                   visibility |-> IF sr.visibility # "none" THEN sr.visibility
                                  ELSE prev.visibility,
                   abort |-> FALSE]
    IN  IF sr.code # 0 \/ sr.abort
        THEN [pc |-> "done", terminal |-> sr, result |-> merged]
        ELSE IF k = Len(steps)
        THEN [pc |-> "done", terminal |-> merged, result |-> merged]
        ELSE [pc |-> steps[k + 1], terminal |-> NoOutcome, result |-> merged]

\* a handler that walks through its steps whatever they return
handler_RunsEveryStep(k, sr, prev) ==
    IF k = Len(Steps)
    THEN [pc |-> "done", terminal |-> sr, result |-> sr]
    ELSE [pc |-> Steps[k + 1], terminal |-> NoOutcome, result |-> sr]

\* handler: runSteps({context, steps: [...], parameters: {body: []}})
handler(k, sr, prev) == runSteps(Steps, k, sr, prev)

\* the step named `step` ran and returned sr
Finish(step, sr) ==
    LET r == handler(StepIndex(step), sr, result)
    IN  /\ pc' = r.pc
        /\ terminal' = r.terminal
        /\ result' = r.result
        /\ trace' = Append(trace, [step |-> step, outcome |-> sr])

\* an externally visible action: the creation or an update of the check-run,
\* the spawn or the exit of a process, the write of a file
Event(kind, step, status) == [kind |-> kind, step |-> step, status |-> status]

\* the step is suspended at an await; ret is the outcome it returns once the
\* awaited call has answered, where that is already decided
Await(on, ret) == [on |-> on, ret |-> ret]

\* no step is suspended
NotAwaiting == Await("none", NoOutcome)

\* a process as it is spawned: running, nothing logged
Spawn(step, command, args) ==
    [step |-> step, command |-> command, args |-> args, exited |-> FALSE,
     status |-> 0, log |-> <<>>]

\* the process spawned last has exited with the status
Exit(status) ==
    [spawned EXCEPT ![Len(spawned)] = [@ EXCEPT !.exited = TRUE, !.status = status]]

\* the awaited check.update has answered and the step returns its outcome
Return(step) ==
    /\ awaiting.on = "update"
    /\ awaiting' = NotAwaiting
    /\ Finish(step, awaiting.ret)
    /\ UNCHANGED <<cfg, files, params, checkRun, spawned, written, env, events,
                   tokVars>>

\* a body to which a paragraph is added at the front
push_Front(body, paragraph) == <<paragraph>> \o body

\* params.body.push(paragraph)
push(body, paragraph) == Append(body, paragraph)

\* check.update({conclusion, body, annotations})
Update(step, conclusion, body, annotations) ==
    [op |-> "update", step |-> step, conclusion |-> conclusion,
     body |-> join(body), annotations |-> annotations]

\* a runner that runs every step, whatever its runWhen says
runWhen_Always(step) == TRUE

\* runWhen of each step; a step without runWhen always runs
runWhen(step) ==
    IF step = "command" THEN cfg.command # <<>>
    ELSE IF step = "prepare" THEN cfg.settings # <<>>
    ELSE TRUE

\* the runner passes over a step whose runWhen is false
SkipStep ==
    /\ pc \in {"command", "prepare"}
    /\ awaiting = NotAwaiting
    /\ ~runWhen(pc)
    /\ pc' = Steps[StepIndex(pc) + 1]
    /\ UNCHANGED <<cfg, files, params, result, terminal, trace, checkRun,
                   spawned, written, env, events, awaiting, tokVars>>

----------------------------------------------------------------------------
(* The steps *)

\* the step asks for the GitHub credential and waits for it
LoadProjectStep_CredentialResolve ==
    /\ pc = "load"
    /\ awaiting = NotAwaiting
    /\ awaiting' = Await("credential.resolve", NoOutcome)
    /\ UNCHANGED <<cfg, files, pc, params, result, terminal, trace, checkRun,
                   spawned, written, env, events, tokVars>>

\* with the credential, the step asks for the project and waits for it
LoadProjectStep_ProjectLoad ==
    /\ pc = "load"
    /\ awaiting.on = "credential.resolve"
    /\ awaiting' = Await("project.load", NoOutcome)
    /\ UNCHANGED <<cfg, files, pc, params, result, terminal, trace, checkRun,
                   spawned, written, env, events, tokVars>>

\* the project is stored in the parameters and the step succeeds
LoadProjectStep_Return ==
    /\ pc = "load"
    /\ awaiting.on = "project.load"
    /\ params' = [params EXCEPT !.project = TRUE]
    /\ awaiting' = NotAwaiting
    /\ Finish("load", success(NoReason))
    /\ UNCHANGED <<cfg, files, checkRun, spawned, written, env, events,
                   tokVars>>

LoadProjectStep ==
    \/ LoadProjectStep_CredentialResolve
    \/ LoadProjectStep_ProjectLoad
    \/ LoadProjectStep_Return

\* a validate step that forgets to abort
validateIgnored_NoAbort ==
    hidden(success([text |-> "Ignoring push to non-Maven project",
                    cmdString |-> <<>>, formatted |-> FALSE]))

\* status.success(`Ignoring push to non-Maven project`).hidden().abort()
validateIgnored ==
    abort(hidden(success([text |-> "Ignoring push to non-Maven project",
                          cmdString |-> <<>>, formatted |-> FALSE])))

\* a validate step that creates the check-run and drops the handle
storeCheck_Dropped(p) == [p EXCEPT !.body = <<>>]

\* params.check = await github.createCheck(...); params.body = []
storeCheck(p) == [p EXCEPT !.check = TRUE, !.body = <<>>]

\* await fs.pathExists(params.project.path("pom.xml"))
ValidateStep_PathExists ==
    /\ pc = "validate"
    /\ awaiting = NotAwaiting
    /\ awaiting' = Await("pathExists pom.xml", NoOutcome)
    /\ UNCHANGED <<cfg, files, pc, params, result, terminal, trace, checkRun,
                   spawned, written, env, events, tokVars>>

\* there is no pom.xml: the step returns the aborting success
ValidateStep_Ignore ==
    /\ pc = "validate"
    /\ awaiting.on = "pathExists pom.xml"
    /\ ~files.pom
    /\ awaiting' = NotAwaiting
    /\ Finish("validate", validateIgnored)
    /\ UNCHANGED <<cfg, files, params, checkRun, spawned, written, env, events,
                   tokVars>>

\* await github.createCheck(...): the creation is sent
ValidateStep_CreateCheck ==
    /\ pc = "validate"
    /\ awaiting.on = "pathExists pom.xml"
    /\ files.pom
    /\ checkRun' = Append(checkRun,
            [op |-> "create", step |-> "validate", conclusion |-> "undefined",
             body |-> <<Paragraph("Running Maven build")>>,
             annotations |-> <<>>])
    /\ events' = Append(events, Event("create", "validate", 0))
    /\ awaiting' = Await("createCheck", NoOutcome)
    /\ UNCHANGED <<cfg, files, pc, params, result, terminal, trace, spawned,
                   written, env, tokVars>>

\* the creation has answered: the handle is stored, the body reset, and the
\* step returns
ValidateStep_Return ==
    /\ pc = "validate"
    /\ awaiting.on = "createCheck"
    /\ params' = storeCheck(params)
    /\ awaiting' = NotAwaiting
    /\ Finish("validate", success(NoReason))
    /\ UNCHANGED <<cfg, files, checkRun, spawned, written, env, events, tokVars>>

ValidateStep ==
    \/ ValidateStep_PathExists
    \/ ValidateStep_Ignore
    \/ ValidateStep_CreateCheck
    \/ ValidateStep_Return

\* a setup command whose exit status is not looked at
commandFailed_Never(res) == FALSE

\* result.status !== 0 after the setup command
commandFailed(res) == res.status # 0

\* the conclusion sent when the setup command failed
commandFailureConclusion == "failure"

\* the conclusion sent after the setup command: undefined, still pending
commandSuccessConclusion == "undefined"

\* await childProcess.spawnPromise("bash", ["-c", command]): the process runs
CommandStep_Spawn ==
    /\ pc = "command"
    /\ awaiting = NotAwaiting
    /\ runWhen("command")
    /\ spawned' = Append(spawned, Spawn("command", BASH, <<DashC, cfg.command>>))
    /\ events' = Append(events, Event("spawn", "command", 0))
    /\ awaiting' = Await("spawn", NoOutcome)
    /\ UNCHANGED <<cfg, files, pc, params, result, terminal, trace, checkRun,
                   written, env, tokVars>>

\* the process has exited: a paragraph is pushed and the update is sent
CommandStep_Exit ==
    /\ pc = "command"
    /\ awaiting.on = "spawn"
    /\ \E status \in ExitStatuses :
         LET res == SpawnResult(BASH, Last(spawned).args, status)
             failed == commandFailed(res)
             body == push(params.body,
                          IF failed THEN spawnFailure(res)
                          ELSE Successful("Setup command", res.cmdString))
         IN  /\ spawned' = Exit(status)
             /\ params' = [params EXCEPT !.body = body]
             /\ checkRun' = Append(checkRun,
                    Update("command",
                           IF failed THEN commandFailureConclusion
                           ELSE commandSuccessConclusion, body, <<>>))
             /\ events' = events \o <<Event("exit", "command", status),
                                       Event("update", "command", 0)>>
             /\ awaiting' = Await("update",
                    IF failed THEN failure(statusReason("failed", res.cmdString))
                    ELSE success(NoReason))
    /\ UNCHANGED <<cfg, files, pc, result, terminal, trace, written, env, tokVars>>

\* the update has answered: the step returns
CommandStep_Return ==
    /\ pc = "command"
    /\ Return("command")

CommandStep ==
    \/ CommandStep_Spawn
    \/ CommandStep_Exit
    \/ CommandStep_Return

\* the conclusion sent by the prepare step: undefined, still pending
prepareConclusion == "undefined"

\* await fs.ensureDir(params.project.path(".m2"))
PrepareStep_EnsureDir ==
    /\ pc = "prepare"
    /\ awaiting = NotAwaiting
    /\ runWhen("prepare")
    /\ awaiting' = Await("ensureDir", NoOutcome)
    /\ UNCHANGED <<cfg, files, pc, params, result, terminal, trace, checkRun,
                   spawned, written, env, events, tokVars>>

\* await fs.writeFile(path, cfg.settings): the write is asked for
PrepareStep_WriteFile ==
    /\ pc = "prepare"
    /\ awaiting.on = "ensureDir"
    /\ awaiting' = Await("writeFile", NoOutcome)
    /\ UNCHANGED <<cfg, files, pc, params, result, terminal, trace, checkRun,
                   spawned, written, env, events, tokVars>>

\* the file system opens the file: it exists and is empty
PrepareStep_FileOpened ==
    /\ pc = "prepare"
    /\ awaiting.on = "writeFile"
    /\ files' = [files EXCEPT !.settings = <<>>]
    /\ awaiting' = Await("writeFile, file opened", NoOutcome)
    /\ UNCHANGED <<cfg, pc, params, result, terminal, trace, checkRun, spawned,
                   written, env, events, tokVars>>

\* the file system writes the content
PrepareStep_FileFilled ==
    /\ pc = "prepare"
    /\ awaiting.on = "writeFile, file opened"
    /\ files' = [files EXCEPT !.settings = cfg.settings]
    /\ awaiting' = Await("writeFile, file filled", NoOutcome)
    /\ UNCHANGED <<cfg, pc, params, result, terminal, trace, checkRun, spawned,
                   written, env, events, tokVars>>

\* the write has answered: the update is sent, with the body as it is
PrepareStep_Update ==
    /\ pc = "prepare"
    /\ awaiting.on = "writeFile, file filled"
    /\ written' = Append(written, [step |-> "prepare", path |-> SettingsPath,
                                   content |-> cfg.settings])
    /\ events' = events \o <<Event("write", "prepare", 0),
                              Event("update", "prepare", 0)>>
    /\ checkRun' = Append(checkRun,
            Update("prepare", prepareConclusion, params.body, <<>>))
    /\ awaiting' = Await("update", success(NoReason))
    /\ UNCHANGED <<cfg, files, pc, params, result, terminal, trace, spawned,
                   env, tokVars>>

\* the update has answered: the step returns
PrepareStep_Return ==
    /\ pc = "prepare"
    /\ Return("prepare")

PrepareStep ==
    \/ PrepareStep_EnsureDir
    \/ PrepareStep_WriteFile
    \/ PrepareStep_FileOpened
    \/ PrepareStep_FileFilled
    \/ PrepareStep_Update
    \/ PrepareStep_Return

\* a toolchain install whose exit status is not looked at
setupFailed_Never(res) == FALSE

\* result.status !== 0 after the toolchain install
setupFailed(res) == res.status # 0

\* a failed toolchain install that leaves the check-run pending
setupFailureConclusion_Pending == "undefined"

\* the conclusion sent when the toolchain install failed
setupFailureConclusion == "failure"

\* a toolchain install that concludes the check-run when it succeeds
setupSuccessConclusion_Success == "success"

\* the conclusion sent after the toolchain install: undefined, still pending
setupSuccessConclusion == "undefined"

\* `${cfg.version}`: the text of the version, "undefined" when it is not set
versionText(version) ==
    IF version = Undefined THEN <<"u", "n", "d", "e", "f", "i", "n", "e", "d">>
    ELSE version

\* await params.project.spawn("bash", ["-c", `... sdk install java ${version}`])
SetupNodeStep_Spawn ==
    /\ pc = "setup jdk"
    /\ awaiting = NotAwaiting
    /\ spawned' = Append(spawned,
            Spawn("setup jdk", BASH, <<DashC, SdkInstall \o versionText(cfg.version)>>))
    /\ events' = Append(events, Event("spawn", "setup jdk", 0))
    /\ awaiting' = Await("spawn", NoOutcome)
    /\ UNCHANGED <<cfg, files, pc, params, result, terminal, trace, checkRun,
                   written, env, tokVars>>

\* the install has exited: a paragraph is pushed and the update is sent
SetupNodeStep_Exit ==
    /\ pc = "setup jdk"
    /\ awaiting.on = "spawn"
    /\ \E status \in ExitStatuses :
         LET res == SpawnResult(BASH, Last(spawned).args, status)
             failed == setupFailed(res)
             body == push(params.body,
                          IF failed THEN spawnFailure(res)
                          ELSE InstalledJdk(versionText(cfg.version)))
         IN  /\ spawned' = Exit(status)
             /\ params' = [params EXCEPT !.body = body]
             /\ checkRun' = Append(checkRun,
                    Update("setup jdk",
                           IF failed THEN setupFailureConclusion
                           ELSE setupSuccessConclusion, body, <<>>))
             /\ events' = events \o <<Event("exit", "setup jdk", status),
                                       Event("update", "setup jdk", 0)>>
             /\ awaiting' = Await("update",
                    IF failed THEN failure(statusReason("failed", res.cmdString))
                    ELSE success(NoReason))
    /\ UNCHANGED <<cfg, files, pc, result, terminal, trace, written, env, tokVars>>

\* the update has answered: the step returns
SetupNodeStep_Return ==
    /\ pc = "setup jdk"
    /\ Return("setup jdk")

SetupNodeStep ==
    \/ SetupNodeStep_Spawn
    \/ SetupNodeStep_Exit
    \/ SetupNodeStep_Return

----------------------------------------------------------------------------
(* The mvn step *)

\* tokenizeArgString(cfg.mvn || "clean install")
mvnTokens(c) == tokenizeArgString(IF c.mvn = <<>> THEN CleanInstall ELSE c.mvn)

\* args[0] === "mvn" || args[0] === "./mvnw"
mvnOverride(args0) == args0 # <<>> /\ (args0[1] = MVN \/ args0[1] = MVNW)

\* the executable: the user's, else the wrapper when the project has one
mvnCommand(args0, mvnwExists) ==
    IF mvnOverride(args0) THEN args0[1]
    ELSE IF mvnwExists THEN MVNW ELSE MVN

\* args = args.slice(1) when the user named the executable
mvnArgs(args0) == IF mvnOverride(args0) THEN Tail(args0) ELSE args0

\* the repository location option, whatever the user passed
repoLocalOption_Always(args) == <<RepoLocalDefault>>

\* if (!args.some(a => a.includes("-Dmaven.repo.local"))) options.push(...)
repoLocalOption(args) ==
    IF ~(\E k \in 1..Len(args) : includes(args[k], RepoLocalFlag))
    THEN <<RepoLocalDefault>>
    ELSE <<>>

\* the condition guarding options.push(`--settings=...`)
settingsOption(args, settingsExists) ==
    IF /\ settingsExists
       /\ ~(\E k \in 1..Len(args) : includes(args[k], SettingsEq))
       /\ ~(\E k \in 1..Len(args) : args[k] = SettingsLong)
       /\ ~(\E k \in 1..Len(args) :
                /\ includes(args[k], ShortSEq)
                /\ ~(\E j \in 1..Len(args) : args[j] = ShortS))
    THEN <<SettingsEq \o SettingsPath>>
    ELSE <<>>

mvnOptions(args, settingsExists) ==
    repoLocalOption(args) \o settingsOption(args, settingsExists)

\* a build step that trusts the exit status alone
mvnFailed_StatusOnly(status, annotations) == status # 0

\* result.status !== 0 || annotations.length > 0
mvnFailed(status, annotations) == status # 0 \/ Len(annotations) > 0

\* the conclusion sent after a failed build
mvnFailureConclusion == "failure"

\* a successful build that leaves the check-run pending
mvnSuccessConclusion_Pending == "undefined"

\* the conclusion sent after a successful build
mvnSuccessConclusion == "success"

\* a failure report that does not carry the captured log
mvnFailureParagraph_NoLog(res, log) == spawnFailure(res)

\* result.stderr = log.log; spawnFailure(result)
mvnFailureParagraph(res, log) == spawnFailure([res EXCEPT !.stderr = log])

\* await fs.pathExists(params.project.path("mvnw"))
MvnGoalsStep_PathExistsMvnw ==
    /\ pc = "mvn"
    /\ awaiting = NotAwaiting
    /\ awaiting' = Await("pathExists mvnw", NoOutcome)
    /\ UNCHANGED <<cfg, files, pc, params, result, terminal, trace, checkRun,
                   spawned, written, env, events, tokVars>>

\* await fs.pathExists(params.project.path(".m2", "settings.xml"))
MvnGoalsStep_PathExistsSettings ==
    /\ pc = "mvn"
    /\ awaiting.on = "pathExists mvnw"
    /\ awaiting' = Await("pathExists settings.xml", NoOutcome)
    /\ UNCHANGED <<cfg, files, pc, params, result, terminal, trace, checkRun,
                   spawned, written, env, events, tokVars>>

\* await params.project.spawn(command, [...options, ...args], {log}): the
\* build runs
MvnGoalsStep_Spawn ==
    /\ pc = "mvn"
    /\ awaiting.on = "pathExists settings.xml"
    /\ \E args0 \in {mvnTokens(cfg)} :
         LET command == mvnCommand(args0, files.mvnw)
             args == mvnArgs(args0)
             options == mvnOptions(args, files.settings # NoFile)
         IN  spawned' = Append(spawned, Spawn("mvn", command, options \o args))
    /\ events' = Append(events, Event("spawn", "mvn", 0))
    /\ awaiting' = Await("spawn", NoOutcome)
    /\ UNCHANGED <<cfg, files, pc, params, result, terminal, trace, checkRun,
                   written, env, tokVars>>

\* log.write(msg) while the build runs: a line is added to the captured log
MvnGoalsStep_LogWrite ==
    /\ pc = "mvn"
    /\ awaiting.on = "spawn"
    /\ Len(Last(spawned).log) < MaxLogLines
    /\ \E line \in LogLines :
         spawned' = [spawned EXCEPT ![Len(spawned)].log = Append(@, line)]
    /\ UNCHANGED <<cfg, files, pc, params, result, terminal, trace, checkRun,
                   written, env, events, awaiting, tokVars>>

\* the build has exited: the log is searched for diagnostics, a paragraph is
\* pushed and the update is sent
MvnGoalsStep_Exit ==
    /\ pc = "mvn"
    /\ awaiting.on = "spawn"
    /\ \E status \in ExitStatuses :
         LET log == Last(spawned).log
             res == SpawnResult(Last(spawned).command, Last(spawned).args, status)
             annotations == extractAnnotations(log)
             failed == mvnFailed(res.status, annotations)
             body == push(params.body,
                          IF failed THEN mvnFailureParagraph(res, log)
                          ELSE Successful("", res.cmdString))
         IN  /\ spawned' = Exit(status)
             /\ params' = [params EXCEPT !.body = body]
             /\ checkRun' = Append(checkRun,
                    IF failed
                    THEN Update("mvn", mvnFailureConclusion, body,
                                mapAnnotations(annotations, homeDir(env)))
                    ELSE Update("mvn", mvnSuccessConclusion, body, <<>>))
             /\ events' = events \o <<Event("exit", "mvn", status),
                                       Event("update", "mvn", 0)>>
             /\ awaiting' = Await("update",
                    IF failed THEN failure(statusReason("failed", res.cmdString))
                    ELSE success(statusReason("Maven build succeeded", <<>>)))
    /\ UNCHANGED <<cfg, files, pc, result, terminal, trace, written, env, tokVars>>

\* the update has answered: the step returns
MvnGoalsStep_Return ==
    /\ pc = "mvn"
    /\ Return("mvn")

MvnGoalsStep ==
    \/ MvnGoalsStep_PathExistsMvnw
    \/ MvnGoalsStep_PathExistsSettings
    \/ MvnGoalsStep_Spawn
    \/ MvnGoalsStep_LogWrite
    \/ MvnGoalsStep_Exit
    \/ MvnGoalsStep_Return

----------------------------------------------------------------------------
(* The handler's runs *)

IdleTokenizer ==
    /\ argString = <<>> /\ tokens = <<>> /\ tokDone = FALSE
    /\ argIsArray = FALSE /\ argArray = <<>>
    /\ retokens = <<>> /\ retokDone = FALSE

Init ==
    /\ cfg \in Configurations
    /\ files \in FileSystems
    /\ pc = "load"
    /\ params = [project |-> FALSE, check |-> FALSE, body |-> <<>>]
    /\ result = NoOutcome
    /\ terminal = NoOutcome
    /\ trace = <<>>
    /\ checkRun = <<>>
    /\ spawned = <<>>
    /\ written = <<>>
    /\ env \in Environments
    /\ events = <<>>
    /\ awaiting = NotAwaiting
    /\ IdleTokenizer

Next ==
    \/ LoadProjectStep
    \/ ValidateStep
    \/ SkipStep
    \/ CommandStep
    \/ PrepareStep
    \/ SetupNodeStep
    \/ MvnGoalsStep

Spec == Init /\ [][Next]_vars

----------------------------------------------------------------------------
(* Calls of tokenizeArgString on every short string *)

\* the pipeline at rest
IdlePipeline ==
    /\ cfg = [command |-> <<>>, settings |-> <<>>, mvn |-> <<>>, version |-> DefaultJdkVersion]
    /\ files = [pom |-> FALSE, mvnw |-> FALSE, settings |-> NoFile]
    /\ pc = "load"
    /\ params = [project |-> FALSE, check |-> FALSE, body |-> <<>>]
    /\ result = NoOutcome
    /\ terminal = NoOutcome
    /\ trace = <<>>
    /\ checkRun = <<>>
    /\ spawned = <<>>
    /\ written = <<>>
    /\ env = [ATOMIST_HOME |-> <<>>]
    /\ events = <<>>
    /\ awaiting = NotAwaiting

InitTok ==
    /\ argString \in Strings
    /\ tokens = <<>>
    /\ tokDone = FALSE
    /\ argIsArray = FALSE
    /\ argArray = <<>>
    /\ retokens = <<>>
    /\ retokDone = FALSE
    /\ IdlePipeline

Tokenize ==
    /\ ~tokDone
    /\ tokens' = tokenizeArg([isArray |-> argIsArray, str |-> argString,
                              arr |-> argArray])
    /\ tokDone' = TRUE
    /\ UNCHANGED <<argString, argIsArray, argArray, retokens, retokDone,
                   pipelineVars>>

NextTok == Tokenize

SpecTok == InitTok /\ [][NextTok]_vars

----------------------------------------------------------------------------
(* Calls of tokenizeArgString on strings and arrays, and on its own result *)

\* elements an argument array may hold
ArrayElems ==
    {StringElem(<<"a">>), StringElem(<<"a", " ", "b">>),
     StringElem(<<"'", "a", " ", "b">>), StringElem(<<" ", "a">>),
     StringElem(<<>>),
     NumberElem(0), NumberElem(7), NumberElem(12),
     BooleanElem(TRUE), BooleanElem(FALSE)}

RECURSIVE ArraysOfLen(_)
ArraysOfLen(n) ==
    IF n = 0 THEN {<<>>}
    ELSE {Append(a, e) : a \in ArraysOfLen(n - 1), e \in ArrayElems}

Arrays == UNION {ArraysOfLen(n) : n \in 0..MaxElems}

InitSeq ==
    /\ \/ argIsArray = FALSE /\ argString \in Strings /\ argArray = <<>>
       \/ argIsArray = TRUE /\ argString = <<>> /\ argArray \in Arrays
    /\ tokens = <<>>
    /\ tokDone = FALSE
    /\ retokens = <<>>
    /\ retokDone = FALSE
    /\ IdlePipeline

\* tokenizeArgString(tokenizeArgString(x))
TokenizeAgain ==
    /\ tokDone
    /\ ~retokDone
    /\ retokens' = tokenizeArg([isArray |-> TRUE, str |-> <<>>,
                                arr |-> AsArray(tokens)])
    /\ retokDone' = TRUE
    /\ UNCHANGED <<argString, argIsArray, argArray, tokens, tokDone,
                   pipelineVars>>

NextSeq ==
    \/ Tokenize
    \/ TokenizeAgain

SpecSeq == InitSeq /\ [][NextSeq]_vars

----------------------------------------------------------------------------
(* Properties of the pipeline *)

\* the steps that spawned a process, wrote a file or called the check-run API
EffectSteps ==
    {spawned[k].step : k \in 1..Len(spawned)}
        \cup {written[k].step : k \in 1..Len(written)}
        \cup {checkRun[k].step : k \in 1..Len(checkRun)}

\* the run is over and its last step was the given one, or that step has
\* sent its update and has only to return; failed tells a failure outcome
\* from the others
EndsAt(step, failed) ==
    \/ /\ pc = "done"
       /\ Last(trace).step = step
       /\ terminal = Last(trace).outcome
       /\ (terminal.code # 0) <=> failed
    \/ /\ pc = step
       /\ awaiting.on = "update"
       /\ (awaiting.ret.code # 0) <=> failed

\* the processes that have exited
Exited == {k \in 1..Len(spawned) : spawned[k].exited}

\* the processes the mvn step spawned
MvnSpawns == {k \in 1..Len(spawned) : spawned[k].step = "mvn"}

Occurrences(seq, x) == Cardinality({k \in 1..Len(seq) : seq[k] = x})

\* C1: a step that returns a failure, or a success flagged abort, is the last
\* step to run: the pipeline is over, no later step has spawned a process,
\* written a file or called the check-run API, and the terminal outcome is
\* that failure, respectively a non-failure.
C1_PrefixOnlyExecution ==
    \A k \in 1..Len(trace) :
        LET o == trace[k].outcome
            stops ==
                /\ k = Len(trace)
                /\ pc = "done"
                /\ \A s \in EffectSteps : StepIndex(s) <= StepIndex(trace[k].step)
        IN  /\ o.code # 0 => stops /\ terminal = o
            /\ o.abort => stops /\ terminal.code = 0

\* the toolchain install failed, so the build step is left out
C1_Witness ==
    /\ pc = "done"
    /\ trace # <<>>
    /\ Last(trace).step = "setup jdk"
    /\ Last(trace).outcome.code # 0
    /\ cfg.command # <<>>

\* C2: without pom.xml the run never creates or updates the check-run and
\* never spawns a process, goes no further than validate, and ends with
\* validate's outcome: a success flagged hidden and abort.
C2_NoPomAborts ==
    ~files.pom =>
        /\ checkRun = <<>>
        /\ spawned = <<>>
        /\ pc \in {"load", "validate", "done"}
        /\ pc = "done" =>
             /\ Last(trace).step = "validate"
             /\ terminal = Last(trace).outcome
             /\ terminal.code = 0
             /\ terminal.visibility = "hidden"
             /\ terminal.abort

C2_Witness == ~files.pom /\ pc = "done" /\ cfg.command # <<>>

\* C3: the mvn step returns a failure exactly when the build's exit status is
\* not 0 or its log yields at least one diagnostic.
C3_FailureIffStatusOrDiagnostics ==
    \A k \in 1..Len(trace) :
        trace[k].step = "mvn" =>
            \A j \in MvnSpawns :
                (trace[k].outcome.code # 0)
                    <=> /\ j \in Exited
                        /\ \/ spawned[j].status # 0
                           \/ Len(extractAnnotations(spawned[j].log)) > 0

\* exit status 0 with a diagnostic in the log: the step failed
C3_Witness ==
    /\ trace # <<>>
    /\ Last(trace).step = "mvn"
    /\ Last(trace).outcome.code # 0
    /\ \E j \in MvnSpawns :
         spawned[j].status = 0 /\ extractAnnotations(spawned[j].log) # <<>>

\* every process spawned in the run exited 0 and the build log is clean
AllClean ==
    /\ \A k \in 1..Len(spawned) : k \in Exited /\ spawned[k].status = 0
    /\ \A j \in MvnSpawns : extractAnnotations(spawned[j].log) = <<>>

\* C4: with pom.xml present, every spawned process exiting 0 and no
\* diagnostic in the build log, the run ends in success and the last
\* check-run update carries conclusion success.
C4_CleanBuildSucceeds ==
    (pc = "done" /\ files.pom /\ AllClean) =>
        /\ terminal.code = 0
        /\ MvnSpawns # {}
        /\ checkRun # <<>>
        /\ Last(checkRun).op = "update"
        /\ Last(checkRun).conclusion = "success"

C4_Witness ==
    /\ pc = "done" /\ files.pom /\ AllClean
    /\ cfg.command # <<>> /\ cfg.settings # <<>>
    /\ Len(spawned) = 3

\* C5: when the build has exited with a status other than 0, the mvn step
\* has sent the last check-run update, with conclusion failure and the body
\* of the update before it followed by the separator and the spawn-failure
\* paragraph of the build command with the captured log as its stderr, and
\* the run ends in failure: the step returns a failure, no step follows.
C5_FailedBuildReported ==
    \A j \in MvnSpawns :
        (j \in Exited /\ spawned[j].status # 0) =>
            /\ files.pom
            /\ EndsAt("mvn", TRUE)
            /\ Len(checkRun) >= 2
            /\ Last(checkRun).op = "update"
            /\ Last(checkRun).conclusion = "failure"
            /\ Last(checkRun).body =
                   checkRun[Len(checkRun) - 1].body
                       \o <<Paragraph(Separator),
                            spawnFailure([cmdString |-> <<spawned[j].command>>
                                                          \o spawned[j].args,
                                          status |-> spawned[j].status,
                                          stderr |-> spawned[j].log])>>

C5_Witness ==
    /\ pc = "done"
    /\ \E j \in MvnSpawns :
         /\ j \in Exited
         /\ spawned[j].status = 1
         /\ Len(spawned[j].log) = MaxLogLines

----------------------------------------------------------------------------
(* Properties of the build's argument list *)

\* the option the step injects to name the settings file
SettingsDefault == SettingsEq \o SettingsPath

IsPrefix(pre, a) == Len(pre) <= Len(a) /\ SubSeq(a, 1, Len(pre)) = pre

\* the last n elements of seq
Suffix(seq, n) == SubSeq(seq, Len(seq) - n + 1, Len(seq))

\* the user names a settings file: --settings <file>, --settings=<file>,
\* -s <file> or -s=<file>
UserNamesSettings(user) ==
    \E k \in 1..Len(user) :
        \/ user[k] = SettingsLong
        \/ IsPrefix(SettingsEq, user[k])
        \/ user[k] = ShortS
        \/ IsPrefix(ShortSEq, user[k])

\* C6: if a token of the user's arguments contains -Dmaven.repo.local, the
\* build is passed no -Dmaven.repo.local=.m2 of the step's own; otherwise it
\* is passed exactly one, in first place, before the user's arguments.
C6_NoDuplicateRepoLocal ==
    \A j \in MvnSpawns :
        LET user == mvnTokens(cfg)
            passed == spawned[j].args
        IN  IF \E k \in 1..Len(user) : includes(user[k], RepoLocalFlag)
            THEN Occurrences(passed, RepoLocalDefault)
                     = Occurrences(user, RepoLocalDefault)
            ELSE /\ Occurrences(passed, RepoLocalDefault) = 1
                 /\ passed[1] = RepoLocalDefault
                 /\ \E n \in {Len(user) - 1, Len(user)} :
                        /\ n >= 0 /\ n < Len(passed)
                        /\ Suffix(passed, n) = Suffix(user, n)

\* the user passed -Dmaven.repo.local=/custom and the build ran
C6_Witness ==
    \E j \in MvnSpawns :
        LET user == mvnTokens(cfg)
        IN  /\ Occurrences(user, UserRepoLocal) = 1
            /\ Occurrences(spawned[j].args, UserRepoLocal) = 1

\* C7: when the user's arguments name a settings file in any of the four
\* forms, the step injects no --settings=<project>/.m2/settings.xml; when
\* they name none and .m2/settings.xml exists, it injects exactly one.
C7_NoDuplicateSettings ==
    \A j \in MvnSpawns :
        LET user == mvnTokens(cfg)
            passed == spawned[j].args
        IN  IF UserNamesSettings(user)
            THEN Occurrences(passed, SettingsDefault) = 0
            ELSE files.settings # NoFile
                     => Occurrences(passed, SettingsDefault) = 1

\* C8: when the first token of the user's arguments is mvn, mvnw or ./mvnw,
\* that token is the spawned command, it is not among the arguments passed,
\* and the user's remaining tokens are passed in order.
C8_ExecutableOverride ==
    \A j \in MvnSpawns :
        LET user == mvnTokens(cfg)
            passed == spawned[j].args
        IN  (user # <<>> /\ user[1] \in {MVN, BareMvnw, MVNW}) =>
                /\ spawned[j].command = user[1]
                /\ Occurrences(passed, user[1]) = 0
                /\ Len(passed) >= Len(user) - 1
                /\ Suffix(passed, Len(user) - 1) = Tail(user)

----------------------------------------------------------------------------
(* Properties of tokenizeArgString *)

Min(S) == CHOOSE x \in S : \A y \in S : x <= y
Max(S) == CHOOSE x \in S : \A y \in S : x >= y

\* the maximal runs of positions of s outside cut, as strings, in order
RECURSIVE RunsFrom(_, _, _)
RunsFrom(s, cut, from) ==
    LET rest == {k \in from..Len(s) : k \notin cut}
    IN  IF rest = {} THEN <<>>
        ELSE LET lo == Min(rest)
                 hi == Max({k \in lo..Len(s) : \A j \in lo..k : j \notin cut})
             IN  <<SubSeq(s, lo, hi)>> \o RunsFrom(s, cut, hi + 1)

Runs(s, cut) == RunsFrom(s, cut, 1)

HasQuote(s) == \E k \in 1..Len(s) : s[k] \in Quotes

\* where the quote opened at p closes: at the next occurrence of the same
\* character, or past the end of the string when there is none
CloseOf(t, p) ==
    LET same == {q \in (p + 1)..Len(t) : t[q] = t[p]}
    IN  IF same = {} THEN Len(t) + 1 ELSE Min(same)

\* the positions where a quote opens: the first quote character, then the
\* first one after the previous quote closed
RECURSIVE OpensFrom(_, _)
OpensFrom(t, from) ==
    LET qs == {p \in from..Len(t) : t[p] \in Quotes}
    IN  IF qs = {} THEN {}
        ELSE {Min(qs)} \cup OpensFrom(t, CloseOf(t, Min(qs)) + 1)

\* the positions from an opening quote to its closing quote, both included
Quoted(t) ==
    {k \in 1..Len(t) : \E p \in OpensFrom(t, 1) : p <= k /\ k <= CloseOf(t, p)}

\* C9: a string without quote characters is split into its maximal runs of
\* non-whitespace characters, in order.
C9_SplitsOnWhitespace ==
    (tokDone /\ ~HasQuote(argString)) =>
        tokens = Runs(argString, {k \in 1..Len(argString) :
                                      argString[k] \in WhiteSpace})

\* C10: from an opening quote to the next occurrence of the same quote
\* character, or to the end of the string, nothing is split and every
\* character is kept: the result is the trimmed input cut at the spaces
\* outside quotes and nowhere else, quote characters included.
C10_QuotesSuppressSplitting ==
    (tokDone /\ HasQuote(argString)) =>
        LET t == trim(argString)
        IN  tokens = Runs(t, {k \in 1..Len(t) : t[k] = " " /\ k \notin Quoted(t)})

\* a token that holds a space between quotes and a quote of the other kind
C10_Witness ==
    /\ tokDone
    /\ \E k \in 1..Len(tokens) :
         LET chars == {tokens[k][j] : j \in 1..Len(tokens[k])}
         IN  {" ", "'", "\""} \subseteq chars

----------------------------------------------------------------------------
(* Properties of tokenizeArgString on arrays and around trimming *)

\* the string form JavaScript gives the non-string elements of ArrayElems
StringForm(e) ==
    IF e = NumberElem(0) THEN <<"0">>
    ELSE IF e = NumberElem(7) THEN <<"7">>
    ELSE IF e = NumberElem(12) THEN <<"1", "2">>
    ELSE IF e = BooleanElem(TRUE) THEN <<"t", "r", "u", "e">>
    ELSE <<"f", "a", "l", "s", "e">>

\* C11: for an array the result has the length and order of the argument,
\* with every string element unchanged and every other element in its string
\* form; and tokenizing the result of a call, for a string or an array,
\* returns that result again.
C11_ArrayIdentityAndIdempotence ==
    /\ (tokDone /\ argIsArray) =>
           /\ Len(tokens) = Len(argArray)
           /\ \A k \in 1..Len(argArray) :
                  tokens[k] = IF argArray[k].type = "string"
                              THEN argArray[k].str
                              ELSE StringForm(argArray[k])
    /\ retokDone => retokens = tokens

\* an array with a string that holds a space and a number, tokenized twice
C11_Witness ==
    /\ retokDone
    /\ argIsArray
    /\ \E k \in 1..Len(argArray) :
           argArray[k].type = "string" /\ includes(argArray[k].str, <<" ">>)
    /\ \E k \in 1..Len(argArray) : argArray[k] = NumberElem(12)

\* s without its leading whitespace
RECURSIVE DropLeading(_)
DropLeading(s) ==
    IF s # <<>> /\ Head(s) \in WhiteSpace THEN DropLeading(Tail(s)) ELSE s

\* s without its trailing whitespace
RECURSIVE DropTrailing(_)
DropTrailing(s) ==
    IF s # <<>> /\ s[Len(s)] \in WhiteSpace
    THEN DropTrailing(SubSeq(s, 1, Len(s) - 1))
    ELSE s

\* C12: the result for a string is the result for that string without its
\* leading and trailing whitespace, and it is empty when the string is empty
\* or holds whitespace only.
C12_TrimsBeforeTokenizing ==
    (tokDone /\ ~argIsArray) =>
        /\ tokens = tokenizeArgString(DropTrailing(DropLeading(argString)))
        /\ (\A k \in 1..Len(argString) : argString[k] \in WhiteSpace)
               => tokens = <<>>

\* a string with whitespace on both sides of two tokens
C12_Witness ==
    /\ tokDone
    /\ ~argIsArray
    /\ Len(argString) >= 3
    /\ argString[1] \in WhiteSpace
    /\ argString[Len(argString)] \in WhiteSpace
    /\ tokens # <<>>


----------------------------------------------------------------------------
(* The report body and the check-run calls *)

\* the paragraphs of a pushed body: every other element, from the first
Paragraphs(text) == [k \in 1..((Len(text) + 1) \div 2) |-> text[2 * k - 1]]

\* a pushed body is paragraphs with exactly one separator between neighbours
WellJoined(text) ==
    /\ Len(text) = 0 \/ Len(text) % 2 = 1
    /\ \A k \in 1..Len(text) :
           (text[k] = Paragraph(Separator)) <=> (k % 2 = 0)

\* the paragraphs accumulated when call k of the check-run API was made: none
\* after the creation, else those the previous update pushed
BodyBefore(k) ==
    IF checkRun[k - 1].op = "create" THEN <<>>
    ELSE Paragraphs(checkRun[k - 1].body)

\* the calls of the check-run API that are updates
Updates == {k \in 1..Len(checkRun) : checkRun[k].op = "update"}

\* every step from validate on that has returned has made exactly one call
\* before it returned, in order; a further call is that of the running step,
\* which awaits its answer
OneCallPerStep ==
    Len(checkRun) > 0 =>
        /\ Len(trace) >= 1
        /\ Len(checkRun) \in {Len(trace) - 1, Len(trace)}
        /\ \A k \in 1..(Len(trace) - 1) : checkRun[k].step = trace[k + 1].step
        /\ Len(checkRun) = Len(trace) =>
               /\ Last(checkRun).step = pc
               /\ awaiting.on \in {"createCheck", "update"}

\* C13 as stated: each of command, prepare, setup jdk and mvn, when it runs,
\* adds one paragraph to the body and pushes all paragraphs so far, in order,
\* joined by the separator.
C13_OneParagraphPerStep ==
    /\ OneCallPerStep
    /\ \A k \in Updates :
           /\ WellJoined(checkRun[k].body)
           /\ Len(Paragraphs(checkRun[k].body)) = Len(BodyBefore(k)) + 1
           /\ IsPrefix(BodyBefore(k), Paragraphs(checkRun[k].body))

\* C13 amended: command, setup jdk and mvn each add exactly one paragraph,
\* prepare adds none; each of the four, before it returns, pushes all the
\* paragraphs accumulated so far, in order, joined by the separator, and the
\* pushed paragraphs are the body the handler holds.
C13_IncrementalReport ==
    /\ OneCallPerStep
    /\ \A k \in Updates :
           /\ checkRun[k].step \in {"command", "prepare", "setup jdk", "mvn"}
           /\ WellJoined(checkRun[k].body)
           /\ IsPrefix(BodyBefore(k), Paragraphs(checkRun[k].body))
           /\ Len(Paragraphs(checkRun[k].body)) =
                  Len(BodyBefore(k)) + (IF checkRun[k].step = "prepare" THEN 0 ELSE 1)
    /\ Updates # {} => Paragraphs(Last(checkRun).body) = params.body

\* all four steps ran after the creation and three paragraphs were pushed
C13_Witness ==
    /\ pc = "done"
    /\ Len(checkRun) = 5
    /\ {checkRun[k].step : k \in Updates} = {"command", "prepare", "setup jdk", "mvn"}
    /\ Len(Last(checkRun).body) = 5


\* the processes of the setup command and the toolchain installer that exited
\* with a status other than 0
FailedSetups ==
    {k \in Exited :
        spawned[k].step \in {"command", "setup jdk"} /\ spawned[k].status # 0}

\* the outcome the run ends with: the one returned, or the one the running
\* step returns when its update has answered
EndingOutcome == IF pc = "done" THEN terminal ELSE awaiting.ret

\* C14: once the setup command or the toolchain installer has exited non-zero,
\* the step has sent its update, with conclusion failure and a body whose
\* last paragraph is the spawn failure of that process, and returns a failure
\* outcome with which the run is over; that process is the last one spawned
\* (the build tool is not spawned) and that update is the last call of the
\* check-run API.
C14_SetupFailureIsTerminal ==
    \A k \in FailedSetups :
        LET s == spawned[k]
            res == SpawnResult(s.command, s.args, s.status)
        IN  /\ EndsAt(s.step, TRUE)
            /\ EndingOutcome = failure(statusReason("failed", res.cmdString))
            /\ k = Len(spawned)
            /\ MvnSpawns = {}
            /\ Last(checkRun).op = "update"
            /\ Last(checkRun).step = s.step
            /\ Last(checkRun).conclusion = "failure"
            /\ Last(checkRun).body # <<>>
            /\ Last(checkRun).body = join(params.body)
            /\ Last(params.body) = spawnFailure(res)
            /\ Last(events) = Event("update", s.step, 0)
            /\ Cardinality({j \in 1..Len(checkRun) : checkRun[j].step = s.step}) = 1

\* the toolchain installer failed after a successful setup command
C14_Witness ==
    /\ FailedSetups # {}
    /\ Len(spawned) = 2
    /\ spawned[1].status = 0
    /\ spawned[2].step = "setup jdk"
    /\ Last(checkRun).conclusion = "failure"


----------------------------------------------------------------------------
(* Conditional steps *)

\* the option a conditional step is configured by
OptionOf(step) == IF step = "command" THEN cfg.command ELSE cfg.settings

\* the step has run
Ran(step) == \E k \in 1..Len(trace) : trace[k].step = step

\* the step has been entered: it has returned, or it is suspended at an await
Started(step) == Ran(step) \/ (pc = step /\ awaiting # NotAwaiting)

\* the runner has gone past the step's place in the list
Passed(step) ==
    \/ pc # "done" /\ StepIndex(pc) > StepIndex(step)
    \/ \E k \in 1..Len(trace) : StepIndex(trace[k].step) > StepIndex(step)

\* a conditional step that did not run has had no effect
NoEffectOf(step) ==
    /\ \A k \in 1..Len(spawned) : spawned[k].step # step
    /\ \A k \in 1..Len(written) : written[k].step # step
    /\ \A k \in 1..Len(checkRun) : checkRun[k].step # step
    /\ \A k \in 1..Len(events) : events[k].step # step

\* when the runner is at a conditional step whose option is empty, its next
\* move is to the following step, and nothing else changes
SkipHasNoEffect ==
    \A step \in {"command", "prepare"} :
        (pc = step /\ OptionOf(step) = <<>>) =>
            /\ pc' = Steps[StepIndex(step) + 1]
            /\ UNCHANGED <<params, checkRun, spawned, written, files, events,
                           trace, result, terminal, awaiting>>

\* C15: the command step runs iff the command option is non-empty and the
\* prepare step runs iff the settings option is non-empty; a skipped step
\* spawns no process, writes no file, makes no check-run call and leaves the
\* body unchanged, and the runner goes on to the next step.
C15_SkippedStepsHaveNoEffect ==
    /\ [](\A step \in {"command", "prepare"} :
            /\ Started(step) => OptionOf(step) # <<>>
            /\ (Passed(step) /\ OptionOf(step) # <<>>) => Ran(step)
            /\ ~Started(step) => NoEffectOf(step))
    /\ [][SkipHasNoEffect]_vars

\* both conditional steps were skipped and the toolchain install is next
C15_Witness ==
    /\ pc = "setup jdk"
    /\ cfg.command = <<>> /\ cfg.settings = <<>>
    /\ Len(checkRun) = 1 /\ checkRun[1].op = "create"
    /\ spawned = <<>> /\ written = <<>> /\ params.body = <<>>


----------------------------------------------------------------------------
(* The order of the externally visible actions *)

\* the five actions the order is about, in the order they are to occur
OrderedActions ==
    <<Event("create", "validate", 0), Event("spawn", "command", 0),
      Event("write", "prepare", 0), Event("spawn", "setup jdk", 0),
      Event("spawn", "mvn", 0)>>

Rank(e) == CHOOSE r \in 1..Len(OrderedActions) : OrderedActions[r] = e

\* the positions in events of the five actions
ActionPositions ==
    {k \in 1..Len(events) : \E r \in 1..Len(OrderedActions) : OrderedActions[r] = events[k]}

Occurred(e) == \E k \in 1..Len(events) : events[k] = e

\* the process of the step has exited with status 0
ExitedZero(step) == Occurred(Event("exit", step, 0))

\* C16: the visible actions occur in the order check-run creation, setup
\* command spawn (if configured), settings file write (if configured),
\* toolchain install spawn, build tool spawn, none of them twice and none of
\* the unconfigured ones at all; nothing happens between the spawn of a
\* process and its exit, while the step awaits it; and the build tool is
\* spawned only after the toolchain
\* installer exited 0 and, when a setup command is configured, it exited 0.
C16_StepOrdering ==
    /\ \A j, k \in ActionPositions : j < k => Rank(events[j]) < Rank(events[k])
    /\ events # <<>> => events[1] = OrderedActions[1]
    /\ Occurred(OrderedActions[2]) => cfg.command # <<>>
    /\ Occurred(OrderedActions[3]) => cfg.settings # <<>>
    /\ Occurred(OrderedActions[4]) =>
           /\ cfg.command # <<>> => Occurred(OrderedActions[2])
           /\ cfg.settings # <<>> => Occurred(OrderedActions[3])
    /\ Occurred(OrderedActions[5]) => Occurred(OrderedActions[4])
    /\ \A k \in 1..Len(events) :
           events[k].kind = "spawn" =>
               IF k = Len(events)
               THEN /\ pc = events[k].step
                    /\ awaiting.on = "spawn"
                    /\ Len(spawned) \notin Exited
               ELSE /\ events[k + 1].kind = "exit"
                    /\ events[k + 1].step = events[k].step
    /\ Occurred(OrderedActions[5]) =>
           /\ ExitedZero("setup jdk")
           /\ cfg.command # <<>> => ExitedZero("command")

\* a run in which all five actions occurred
C16_Witness ==
    /\ pc = "done"
    /\ \A r \in 1..Len(OrderedActions) : Occurred(OrderedActions[r])
    /\ Cardinality(ActionPositions) = 5


----------------------------------------------------------------------------
(* The executable and the settings file *)

\* the names a user may give the executable by: mvn, mvnw, ./mvnw
ExecutableNames == {MVN, BareMvnw, MVNW}

\* C17: when the first token of the user's arguments is not an executable
\* name the spawned command is ./mvnw if the project has a file mvnw and mvn
\* otherwise; when it is an executable name the spawned command is that
\* token, whether or not the project has a wrapper.
C17_ExecutableSelection ==
    \A j \in MvnSpawns :
        LET user == mvnTokens(cfg)
        IN  IF user # <<>> /\ user[1] \in ExecutableNames
            THEN spawned[j].command = user[1]
            ELSE spawned[j].command = (IF files.mvnw THEN MVNW ELSE MVN)

\* the same, for the two names the build step compares the first token with
ExecutableSelectionOfKnownNames ==
    \A j \in MvnSpawns :
        LET user == mvnTokens(cfg)
        IN  IF user # <<>> /\ user[1] \in {MVN, MVNW}
            THEN spawned[j].command = user[1]
            ELSE spawned[j].command = (IF files.mvnw THEN MVNW ELSE MVN)


\* the write of the configured settings, as the prepare step is to make it
SettingsWrite == [step |-> "prepare", path |-> SettingsPath, content |-> cfg.settings]

\* the position in events of the first occurrence of e, 0 when there is none
FirstOf(e) ==
    IF Occurred(e) THEN Min({k \in 1..Len(events) : events[k] = e}) ELSE 0

\* the settings file is written as configured, once, ahead of the build; an
\* unconfigured run writes nothing
SettingsWrittenAsConfigured ==
    /\ cfg.settings = <<>> => written = <<>>
    /\ (cfg.settings # <<>> /\ Passed("prepare")) =>
           /\ written = <<SettingsWrite>>
           /\ files.settings = cfg.settings
    /\ (cfg.settings # <<>> /\ MvnSpawns # {}) =>
           /\ FirstOf(Event("write", "prepare", 0)) > 0
           /\ FirstOf(Event("write", "prepare", 0)) < FirstOf(Event("spawn", "mvn", 0))

\* C18: when the settings option is configured its content is written as it
\* is to .m2/settings.xml of the project before the build tool is spawned, and
\* the build is passed --settings=<project>/.m2/settings.xml exactly when the
\* user's arguments name no settings file; when the option is not configured
\* no settings file is written.
C18_SettingsFileUse ==
    /\ SettingsWrittenAsConfigured
    /\ cfg.settings # <<>> =>
           \A j \in MvnSpawns :
               Occurrences(spawned[j].args, SettingsDefault) =
                   (IF UserNamesSettings(mvnTokens(cfg)) THEN 0 ELSE 1)

\* the same with the option required only when the user names no settings file
SettingsFileUseWhenUserNamesNone ==
    /\ SettingsWrittenAsConfigured
    /\ cfg.settings # <<>> =>
           \A j \in MvnSpawns :
               ~UserNamesSettings(mvnTokens(cfg)) =>
                   Occurrences(spawned[j].args, SettingsDefault) = 1


----------------------------------------------------------------------------
(* Annotations *)

\* the path with the prefix taken off its front; unchanged when the path does
\* not start with the prefix
StripPrefix(path, pre) ==
    IF IsPrefix(pre, path) THEN SubSeq(path, Len(pre) + 1, Len(path)) ELSE path

\* the workspace root of the run followed by "/"
RootPrefix ==
    (IF env.ATOMIST_HOME # <<>> THEN env.ATOMIST_HOME ELSE DefaultHome) \o <<"/">>

\* the updates of the mvn step that report a failure
FailedBuildUpdates ==
    {k \in Updates : checkRun[k].step = "mvn" /\ checkRun[k].conclusion = "failure"}

\* C19: the update of a failed build carries one annotation per diagnostic
\* extracted from the build log, in order, with level = severity, startLine =
\* endLine = the line (absent when the diagnostic has none), startOffset = the
\* column (absent likewise), title and message as extracted, and the path
\* stripped of the workspace root prefix only when it starts with it.
C19_AnnotationMapping ==
    \A k \in FailedBuildUpdates :
        LET ds == extractAnnotations(Last(spawned).log)
            as == checkRun[k].annotations
        IN  /\ Len(as) = Len(ds)
            /\ \A i \in 1..Len(ds) :
                   /\ as[i].annotationLevel = ds[i].severity
                   /\ as[i].startLine = (IF ds[i].line = <<>> THEN Absent ELSE ToNumber(ds[i].line))
                   /\ as[i].endLine = as[i].startLine
                   /\ as[i].startOffset = (IF ds[i].column = <<>> THEN Absent ELSE ToNumber(ds[i].column))
                   /\ as[i].title = ds[i].title
                   /\ as[i].message = ds[i].message
                   /\ as[i].path = StripPrefix(ds[i].path, RootPrefix)

\* the same for the diagnostics whose path holds the prefix at its front or
\* nowhere
AnnotationMappingOfPlainPaths ==
    \A k \in FailedBuildUpdates :
        LET ds == extractAnnotations(Last(spawned).log)
            as == checkRun[k].annotations
        IN  /\ Len(as) = Len(ds)
            /\ \A i \in 1..Len(ds) :
                   /\ as[i].annotationLevel = ds[i].severity
                   /\ as[i].startLine = (IF ds[i].line = <<>> THEN Absent ELSE ToNumber(ds[i].line))
                   /\ as[i].endLine = as[i].startLine
                   /\ as[i].startOffset = (IF ds[i].column = <<>> THEN Absent ELSE ToNumber(ds[i].column))
                   /\ as[i].title = ds[i].title
                   /\ as[i].message = ds[i].message
                   /\ (IsPrefix(RootPrefix, ds[i].path) \/ ~includes(ds[i].path, RootPrefix))
                          => as[i].path = StripPrefix(ds[i].path, RootPrefix)


----------------------------------------------------------------------------
(* The conclusion of the check-run *)

\* C20: when the pipeline has ended with an outcome and the check-run was
\* created, the last call of the check-run API is an update whose conclusion
\* is failure if the terminal outcome is a failure and success if it is a
\* success; it is never the pending conclusion.
C20_ConclusionMatchesOutcome ==
    (pc = "done" /\ checkRun # <<>> /\ terminal # NoOutcome) =>
        /\ Last(checkRun).op = "update"
        /\ Last(checkRun).conclusion # "undefined"
        /\ terminal.code # 0 => Last(checkRun).conclusion = "failure"
        /\ terminal.code = 0 => Last(checkRun).conclusion = "success"

\* a run ended by a failed toolchain install, concluded as a failure
C20_Witness ==
    /\ pc = "done"
    /\ Last(trace).step = "setup jdk"
    /\ terminal.code # 0
    /\ Last(checkRun).conclusion = "failure"


----------------------------------------------------------------------------
(* The calls of the check-run API over a whole run *)

\* the updates that carry a conclusion, success or failure
ConcludingUpdates == {k \in Updates : checkRun[k].conclusion # "undefined"}

\* C21: at most one update carries a defined conclusion (success or failure);
\* it is the last call of the check-run API, the step that sent it has only
\* to return and the run is over with its outcome, and every update before it
\* carries the pending conclusion.
C21_ConcludingUpdateIsFinal ==
    /\ Cardinality(ConcludingUpdates) <= 1
    /\ \A k \in ConcludingUpdates :
           /\ checkRun[k].conclusion \in {"success", "failure"}
           /\ k = Len(checkRun)
           /\ EndsAt(checkRun[k].step, checkRun[k].conclusion = "failure")
           /\ \A j \in Updates : j < k => checkRun[j].conclusion = "undefined"

\* a concluding update sent after three pending ones
C21_Witness ==
    /\ Len(checkRun) = 5
    /\ ConcludingUpdates = {5}
    /\ \A j \in 2..4 : checkRun[j].conclusion = "undefined"


\* the steps that use params.check and params.body
ReportingSteps == {"command", "prepare", "setup jdk", "mvn"}

\* validate has returned after it found the project to be a Maven project,
\* created the check-run and stored the handle
ValidateCreated ==
    /\ Len(trace) >= 2
    /\ trace[2].step = "validate"
    /\ trace[2].outcome = success(NoReason)
    /\ checkRun # <<>>
    /\ checkRun[1].op = "create"
    /\ checkRun[1].step = "validate"
    /\ events # <<>> /\ events[1] = Event("create", "validate", 0)
    /\ params.check

\* C22: the check-run is created once, by validate, ahead of every update,
\* and the handle is stored in the parameters; a step that uses the handle or
\* the body runs only after that; until then there is no update, and no call
\* at all but the creation validate is awaiting the answer of; in a run in
\* which validate aborted or was not reached there is no call of the check-run
\* API and no such step has run or had an effect.
C22_NoUpdateBeforeCreation ==
    /\ \A k \in 1..Len(checkRun) : (checkRun[k].op = "create") <=> (k = 1)
    /\ Updates # {} => ValidateCreated
    /\ \A k \in 1..Len(trace) : trace[k].step \in ReportingSteps => ValidateCreated
    /\ (pc # "done" /\ pc \in ReportingSteps) => ValidateCreated
    /\ ~ValidateCreated =>
           /\ \/ checkRun = <<>>
              \/ /\ pc = "validate"
                 /\ awaiting.on = "createCheck"
                 /\ Len(checkRun) = 1
           /\ (pc = "done" \/ pc = "load") => checkRun = <<>>
           /\ params.body = <<>>
           /\ ~params.check
           /\ \A k \in 1..Len(events) : events[k].kind # "update"
           /\ EffectSteps \cap ReportingSteps = {}

\* validate aborted: the run is over and nothing was created or updated
C22_Witness ==
    /\ pc = "done"
    /\ Len(trace) = 2
    /\ Last(trace).outcome.abort
    /\ checkRun = <<>>
    /\ ~params.check


\* once the check-run is created, a step leaves the paragraphs it found at the
\* front of the body, in place
BodyOnlyGrows == params.check => IsPrefix(params.body, params.body')

\* C23: after the creation the list of paragraphs only grows at its end, and
\* the body sent in an update has the body of every earlier update as a
\* prefix (it is equal to it, or extends it by the separator and new
\* paragraphs).
C23_BodyAppendOnly ==
    /\ [](\A j, k \in Updates :
              j < k =>
                  /\ IsPrefix(checkRun[j].body, checkRun[k].body)
                  /\ Len(checkRun[k].body) > Len(checkRun[j].body) =>
                         checkRun[k].body[Len(checkRun[j].body) + 1] =
                             (IF checkRun[j].body = <<>> THEN checkRun[k].body[1]
                              ELSE Paragraph(Separator)))
    /\ [][BodyOnlyGrows]_vars

\* an update equal to the one before it and a later one that extends both
C23_Witness ==
    \E i, j, k \in Updates :
        /\ i < j /\ j < k
        /\ checkRun[i].body # <<>>
        /\ checkRun[j].body = checkRun[i].body
        /\ Len(checkRun[k].body) > Len(checkRun[j].body)


----------------------------------------------------------------------------
(* The tokens of tokenizeArgString and the characters they keep *)

\* the strings of a list one after the other
RECURSIVE Flatten(_)
Flatten(seqs) == IF seqs = <<>> THEN <<>> ELSE seqs[1] \o Flatten(Tail(seqs))

\* s without the characters at the positions in cut
RECURSIVE WithoutFrom(_, _, _)
WithoutFrom(s, cut, k) ==
    IF k > Len(s) THEN <<>>
    ELSE (IF k \in cut THEN <<>> ELSE <<s[k]>>) \o WithoutFrom(s, cut, k + 1)

Without(s, cut) == WithoutFrom(s, cut, 1)

\* the positions of the spaces of t that are outside quotes
SpacesOutsideQuotes(t) == {k \in 1..Len(t) : t[k] = " " /\ k \notin Quoted(t)}

\* C24: the result of tokenizeArgString on a string has no hole and no empty
\* token, and its tokens one after the other are the trimmed input without
\* the spaces outside quotes: no other character is dropped, added or moved.
C24_NoEmptyToken ==
    (tokDone /\ ~argIsArray) =>
        LET t == trim(argString)
        IN  /\ \A k \in 1..Len(tokens) :
                   tokens[k] # Undefined /\ tokens[k] # <<>>
            /\ Flatten(tokens) = Without(t, SpacesOutsideQuotes(t))

\* two tokens cut at a run of two spaces
C24_Witness ==
    /\ tokDone
    /\ \E k \in 1..(Len(argString) - 1) : argString[k] = " " /\ argString[k + 1] = " "
    /\ Len(tokens) = 2
    /\ Len(Flatten(tokens)) = Len(argString) - 2

====
